---- MODULE Spec2Model ----
(***************************************************************************)
(* Non-transitive dice game (src/game.js): the fair-random commitment      *)
(* protocol, the probability matrix, the computer's die selection and the  *)
(* round orchestration, as a state machine.                                *)
(***************************************************************************)
EXTENDS Integers, Sequences, FiniteSets, TLC

(***************************************************************************)
(* Bounds of the model.                                                    *)
(***************************************************************************)
\* keys are drawn from 0..MaxKey (the code draws 32 random bytes)
MaxKey == 1
\* the raw random word has WordBits bits (the code reads a 32-bit word)
WordBits == 4
\* rounds played in one game
MaxRounds == 2
\* largest modulus tried by the combiner harness
MaxModulus == 7
\* longest command line given to the entry point, in characters
MaxArgLen == 6
\* the matrix harness tries dice of 1..MaxFaces faces, each face in 0..MaxFace
MaxFaces == 2
MaxFace == 1

(***************************************************************************)
(* JavaScript values that can be a number, NaN, undefined or null.         *)
(***************************************************************************)
Num(n) == [t |-> "number", v |-> n]
NaN == [t |-> "NaN", v |-> 0]
Undefined == [t |-> "undefined", v |-> 0]
Null == [t |-> "null", v |-> 0]
IsNum(x) == x.t = "number"

\* JavaScript a % b on integers: the sign of the result is the dividend's
JsRem(a, b) == IF a >= 0 THEN a % b ELSE 0 - ((0 - a) % b)

\* x + y on JavaScript numbers
JsAdd(x, y) == IF IsNum(x) /\ IsNum(y) THEN Num(x.v + y.v) ELSE NaN

\* x % n on a JavaScript number x and a positive integer n
JsMod(x, n) == IF IsNum(x) THEN Num(JsRem(x.v, n)) ELSE NaN

\* arr[idx] on a JavaScript array (a sequence, indexed from 0)
ArrayGet(arr, idx) ==
  IF IsNum(idx) /\ idx.v >= 0 /\ idx.v < Len(arr) THEN Num(arr[idx.v + 1]) ELSE Undefined

\* a > b and a < b on JavaScript values: false when either is undefined or NaN
JsGT(a, b) == IsNum(a) /\ IsNum(b) /\ a.v > b.v
JsLT(a, b) == IsNum(a) /\ IsNum(b) /\ a.v < b.v

(***************************************************************************)
(* Strings are sequences of one-character strings.                         *)
(***************************************************************************)
DigitChars == <<"0", "1", "2", "3", "4", "5", "6", "7", "8", "9">>
IsDigit(c) == \E d \in 1..10 : DigitChars[d] = c
DigitVal(c) == (CHOOSE d \in 1..10 : DigitChars[d] = c) - 1

RECURSIVE SkipWs(_)
SkipWs(s) == IF s # <<>> /\ Head(s) = " " THEN SkipWs(Tail(s)) ELSE s

RECURSIVE DigitPrefix(_)
DigitPrefix(s) ==
  IF s # <<>> /\ IsDigit(Head(s)) THEN <<Head(s)>> \o DigitPrefix(Tail(s)) ELSE <<>>

RECURSIVE DigitsToNat(_, _)
DigitsToNat(ds, acc) ==
  IF ds = <<>> THEN acc ELSE DigitsToNat(Tail(ds), 10 * acc + DigitVal(Head(ds)))

\* parseInt(s, 10): leading blanks, an optional sign, then the longest run of
\* digits; NaN when there is no digit
parseInt(s) ==
  LET t == SkipWs(s)
      signed == t # <<>> /\ Head(t) \in {"+", "-"}
      u == IF signed THEN Tail(t) ELSE t
      ds == DigitPrefix(u)
  IN  IF ds = <<>> THEN NaN
      ELSE IF signed /\ Head(t) = "-" THEN Num(0 - DigitsToNat(ds, 0))
      ELSE Num(DigitsToNat(ds, 0))

\* Number.prototype.toString() on an integer
RECURSIVE NatToStr(_)
NatToStr(n) ==
  IF n < 10 THEN <<DigitChars[n + 1]>> ELSE NatToStr(n \div 10) \o <<DigitChars[(n % 10) + 1]>>
ToStr(n) == IF n < 0 THEN <<"-">> \o NatToStr(0 - n) ELSE NatToStr(n)

\* String.prototype.toLowerCase() on the letters the inputs use
LowerChar(c) == IF c = "Y" THEN "y" ELSE IF c = "X" THEN "x" ELSE IF c = "N" THEN "n" ELSE c
toLowerCase(s) == [i \in 1..Len(s) |-> LowerChar(s[i])]

\* Buffer.toString('hex') of a one-byte key, and its inverse
HexChars == <<"0", "1", "2", "3", "4", "5", "6", "7", "8", "9", "a", "b", "c", "d", "e", "f">>
ToHex(k) == <<HexChars[(k \div 16) + 1], HexChars[(k % 16) + 1]>>
HexVal(c) == (CHOOSE d \in 1..16 : HexChars[d] = c) - 1
FromHex(h) == 16 * HexVal(h[1]) + HexVal(h[2])

(***************************************************************************)
(* The user's answers at a prompt, and the dice given on the command line. *)
(***************************************************************************)
Inputs ==
  { <<"?">>, <<"X">>, <<"0">>, <<"1">>, <<"2">>, <<"3">>, <<"5">>, <<"6">>,
    <<"-", "1">>, <<"1", "a">>, <<"y">>, <<"Y">>, <<"n">> }

DiceSets ==
  { << <<2, 2, 4, 4, 9, 9>>, <<1, 1, 6, 6, 8, 8>>, <<3, 3, 5, 5, 7, 7>> >>,
    << <<1, 2, 3>>, <<2, 2>>, <<2, 2, 2, 2>> >> }

Keys == 0..MaxKey
RawWords == 0..((2 ^ WordBits) - 1)

(***************************************************************************)
(* parseDiceInput() and the entry point                                    *)
(***************************************************************************)
ArgChars == {"1", ",", " ", "a"}
ArgStrings == UNION {[1..n -> ArgChars] : n \in 0..MaxArgLen}

\* String.prototype.trim()
RECURSIVE TrimRight(_)
TrimRight(s) ==
  IF s # <<>> /\ s[Len(s)] = " " THEN TrimRight(SubSeq(s, 1, Len(s) - 1)) ELSE s
Trim(s) == TrimRight(SkipWs(s))

\* the place of the first c in s, 0 when there is none
FirstIndex(s, c) ==
  IF \E i \in 1..Len(s) : s[i] = c
  THEN CHOOSE i \in 1..Len(s) : s[i] = c /\ \A j \in 1..(i - 1) : s[j] # c
  ELSE 0

\* split(/\s+/): a run of blanks separates two parts
RECURSIVE SplitWs(_)
SplitWs(s) ==
  LET i == FirstIndex(s, " ")
  IN  IF i = 0 THEN <<s>>
      ELSE <<SubSeq(s, 1, i - 1)>> \o SplitWs(SkipWs(SubSeq(s, i, Len(s))))

\* split(','): every comma separates two faces
RECURSIVE SplitComma(_)
SplitComma(s) ==
  LET i == FirstIndex(s, ",")
  IN  IF i = 0 THEN <<s>>
      ELSE <<SubSeq(s, 1, i - 1)>> \o SplitComma(SubSeq(s, i + 1, Len(s)))

\* /^\d+$/.test(x)
AllDigits(x) == x # <<>> /\ \A i \in 1..Len(x) : IsDigit(x[i])

\* what the callback of parts.map throws for one part, "none" when it returns
PartError(part) ==
  LET faces == SplitComma(part)
  IN  IF \E i \in 1..Len(faces) : ~AllDigits(faces[i]) THEN "NonIntegerFace"
      ELSE IF Len(faces) = 0 THEN "InvalidDieFormat"
      ELSE "none"

PartFaces(part) ==
  LET faces == SplitComma(part) IN [i \in 1..Len(faces) |-> parseInt(faces[i]).v]

\* parseDiceInput(input): the error thrown, or the dice
parseDiceInput(input) ==
  LET parts == SplitWs(Trim(input))
  IN  IF Len(parts) < 3 THEN [error |-> "NotEnoughDice", dice |-> <<>>]
      ELSE IF \E k \in 1..Len(parts) : PartError(parts[k]) # "none"
      THEN LET k == CHOOSE k \in 1..Len(parts) :
                      /\ PartError(parts[k]) # "none"
                      /\ \A j \in 1..(k - 1) : PartError(parts[j]) = "none"
           IN  [error |-> PartError(parts[k]), dice |-> <<>>]
      ELSE [error |-> "none", dice |-> [k \in 1..Len(parts) |-> PartFaces(parts[k])]]

\* the entry point: parse, then construct and start the game, or print the
\* error and exit with code 1
NotRun == [ran |-> FALSE, error |-> "none", started |-> FALSE, exitCode |-> 0, dice |-> <<>>]
EntryPoint(args) ==
  LET r == parseDiceInput(args)
  IN  IF r.error # "none"
      THEN [ran |-> TRUE, error |-> r.error, started |-> FALSE, exitCode |-> 1, dice |-> <<>>]
      ELSE [ran |-> TRUE, error |-> "none", started |-> TRUE, exitCode |-> 0, dice |-> r.dice]

(***************************************************************************)
(* class Dice                                                              *)
(***************************************************************************)
DiceSize(values) == Len(values)
DiceRollOffByOne(values, index) == ArrayGet(values, JsAdd(index, Num(1)))
DiceRoll(values, index) == ArrayGet(values, index)

(***************************************************************************)
(* class FairRandomProtocol                                                *)
(***************************************************************************)
NoDigest == <<>>

\* the keyed hash as an ideal (collision-free) function of key and message
Hmac(key, msg) == <<"hmac", key, msg>>

NewProtocol(min, max, key) ==
  [min |-> min, max |-> max, range |-> max - min + 1, key |-> key,
   number |-> Null, hmac |-> NoDigest]

generateSecureNumber(p, raw) == p.min + (raw % (p.max - p.min + 1))

\* the protocol object after getHmac(); the value returned is its hmac field
getHmacRedraw(p, raw) ==
  LET n == generateSecureNumber(p, raw)
  IN  [p EXCEPT !.number = Num(n), !.hmac = Hmac(p.key, ToStr(n))]
getHmac(p, raw) ==
  IF p.number = Null
  THEN LET n == generateSecureNumber(p, raw)
       IN  [p EXCEPT !.number = Num(n), !.hmac = Hmac(p.key, ToStr(n))]
  ELSE p

getResult(p) == [result |-> p.number, key |-> ToHex(p.key)]

(***************************************************************************)
(* class ProbabilityCalculator: a probability is kept as wins over total   *)
(***************************************************************************)
WinsOrTies(d1, d2) ==
  Cardinality({pr \in (1..Len(d1)) \X (1..Len(d2)) : d1[pr[1]] >= d2[pr[2]]})
WinsReversed(d1, d2) ==
  Cardinality({pr \in (1..Len(d1)) \X (1..Len(d2)) : d1[pr[1]] < d2[pr[2]]})
Wins(d1, d2) ==
  Cardinality({pr \in (1..Len(d1)) \X (1..Len(d2)) : d1[pr[1]] > d2[pr[2]]})
TotalSquare(d1, d2) == Cardinality((1..Len(d1)) \X (1..Len(d1)))
Total(d1, d2) == Cardinality((1..Len(d1)) \X (1..Len(d2)))

calculate(ds) ==
  [pr \in {q \in (0..(Len(ds) - 1)) \X (0..(Len(ds) - 1)) : q[1] # q[2]} |->
     [wins |-> Wins(ds[pr[1] + 1], ds[pr[2] + 1]),
      total |-> Total(ds[pr[1] + 1], ds[pr[2] + 1])]]

\* p > q on two quotients
ProbGT(p, q) == p.wins * q.total > q.wins * p.total
Half == [wins |-> 1, total |-> 2]
Zero == [wins |-> 0, total |-> 1]

(***************************************************************************)
(* State.                                                                  *)
(***************************************************************************)
VARIABLES
  dice,           \* this.dice: the face lists, die 0 first
  probabilities,  \* this.probabilities
  currentPlayer,  \* this.currentPlayer: "null", "user" or "computer"
  selectedDice,   \* this.selectedDice: the die index each party holds, or undefined
  userRoll,       \* this.userRoll
  computerRoll,   \* this.computerRoll
  protocol,       \* the FairRandomProtocol object of the exchange under way
  pc,             \* where the game is suspended
  turn,           \* 1: the first mover selects or rolls, 2: the other party
  round,          \* number of the round under way
  err,            \* what ended the game: "none", "USER_EXIT" or "TypeError"
  verdict,        \* what compareResults printed last: "none", "win", "lose", "tie"
  published,      \* the digest printed in the exchange under way
  prompted,       \* the exchange under way has asked for the user's input
  answered,       \* the user's answer in the exchange under way
  revealed,       \* what getResult returned in the exchange under way
  roundLog,       \* what has happened in the round under way, in order
  lastRoll,       \* the numbers of the roll exchange completed last
  fmDecisions,    \* the first movers decided so far, in order
  exitAsked,      \* the user has typed X at a first-move, selection or roll prompt
  cM, cS, cC,     \* combiner harness: modulus, secret, counterpart value
  cJoint,         \* combiner harness: the joint value
  mDice,          \* matrix harness: the dice given to calculate
  mMatrix,        \* matrix harness: the matrix calculate returned
  pArgs,          \* entry point: the command-line arguments joined by blanks
  pOutcome        \* entry point: what the process did with them

gameVars ==
  <<dice, probabilities, currentPlayer, selectedDice, userRoll, computerRoll, protocol,
    pc, turn, round, err, verdict, published, prompted, answered, revealed, roundLog,
    lastRoll, fmDecisions, exitAsked>>
combineVars == <<cM, cS, cC, cJoint>>
parseVars == <<pArgs, pOutcome>>
matrixVars == <<mDice, mMatrix>>
harnessVars == <<combineVars, parseVars, matrixVars>>
vars == <<gameVars, combineVars, parseVars, matrixVars>>

NoProtocol == [min |-> 0, max |-> 0, range |-> 0, key |-> 0, number |-> Null, hmac |-> NoDigest]
NoAnswer == <<"none">>
NoReveal == [result |-> Null, key |-> <<>>]
NoRoll ==
  [player |-> "none", die |-> 0, size |-> 0, secret |-> Null, choice |-> NaN,
   joint |-> NaN, face |-> Undefined]
EmptySelection == [user |-> Undefined, computer |-> Undefined]

Other(p) == IF p = "user" THEN "computer" ELSE "user"

InitGame ==
  /\ dice \in DiceSets
  /\ probabilities = calculate(dice)
  /\ currentPlayer = "null"
  /\ selectedDice = EmptySelection
  /\ userRoll = Undefined
  /\ computerRoll = Undefined
  /\ protocol = NoProtocol
  /\ pc = "dfp_new"
  /\ turn = 1
  /\ round = 1
  /\ err = "none"
  /\ verdict = "none"
  /\ published = NoDigest
  /\ prompted = FALSE
  /\ answered = NoAnswer
  /\ revealed = NoReveal
  /\ roundLog = <<>>
  /\ lastRoll = NoRoll
  /\ fmDecisions = <<>>
  /\ exitAsked = FALSE

InitCombine ==
  /\ cM = 1
  /\ cS = 0
  /\ cC = 0
  /\ cJoint = Num(0)

(***************************************************************************)
(* DiceGame: helpers                                                       *)
(***************************************************************************)
\* getAvailableDice(): the indices no party holds, in ascending order
getAvailableDiceAll(ds, sel) == [i \in 1..Len(ds) |-> i - 1]
getAvailableDice(ds, sel) ==
  SelectSeq([i \in 1..Len(ds) |-> i - 1],
            LAMBDA i : Num(i) \notin {sel.user, sel.computer})

\* the probability computerSelectDice reads for a die
ProbAgainst(probs, die, opponentDie) ==
  IF opponentDie # Undefined
  THEN IF <<die, opponentDie.v>> \in DOMAIN probs THEN probs[<<die, opponentDie.v>>] ELSE Zero
  ELSE Half

\* the test that replaces the best die found so far
BetterAtLeast(prob, bestProb) == ~ProbGT(bestProb, prob)
Better(prob, bestProb) == ProbGT(prob, bestProb)

RECURSIVE SelectLoop(_, _, _, _, _)
SelectLoop(rest, bestDie, bestProb, probs, opponentDie) ==
  IF rest = <<>> THEN bestDie
  ELSE LET die == Head(rest)
           prob == ProbAgainst(probs, die, opponentDie)
       IN  IF Better(prob, bestProb)
           THEN SelectLoop(Tail(rest), die, prob, probs, opponentDie)
           ELSE SelectLoop(Tail(rest), bestDie, bestProb, probs, opponentDie)

\* the die computerSelectDice() picks
BestDie(ds, probs, sel) ==
  LET available == getAvailableDice(ds, sel)
      opponentDie == sel.user
  IN  SelectLoop(Tail(available), available[1],
                 ProbAgainst(probs, available[1], opponentDie), probs, opponentDie)

\* playRound(): who selects on which turn
SelectorComputerFirst(cp, t) == IF t = 1 THEN "computer" ELSE "user"
Selector(cp, t) ==
  IF cp = "computer" THEN (IF t = 1 THEN "computer" ELSE "user")
  ELSE (IF t = 1 THEN "user" ELSE "computer")

\* performRolls(): who rolls on which turn
RollerUserFirst(cp, t) == IF t = 1 THEN "user" ELSE "computer"
Roller(cp, t) ==
  IF cp = "computer" THEN (IF t = 1 THEN "computer" ELSE "user")
  ELSE (IF t = 1 THEN "user" ELSE "computer")

\* the joint value of a roll
CombineNoMod(result, userNumber, size) == JsAdd(result, userNumber)
Combine(result, userNumber, size) == JsMod(JsAdd(result, userNumber), size)

\* compareResults(): the verdict printed
CompareVerdict(u, c) == IF JsGT(u, c) THEN "win" ELSE IF JsLT(u, c) THEN "lose" ELSE "tie"

\* this.selectedDice = {} before playRound() is called again
ResetSelectionKeep(sel) == sel
ResetSelection(sel) == EmptySelection

\* where playRound() goes on when the user asks for another round
NextRoundPcRedecide == "dfp_new"
NextRoundPc == "select"

\* the tests on the user's answer at a prompt
IsHelpNever(choice) == FALSE
IsHelp(choice) == choice = <<"?">>
IsExitLowerCase(choice) == choice = <<"x">>
IsExit(choice) == choice = <<"X">>

\* the locals of an exchange (protocol, hmac, choice, result, key, rollResult,
\* faceValue) are gone when its function returns
ClearLocals ==
  /\ protocol' = NoProtocol
  /\ published' = NoDigest
  /\ prompted' = FALSE
  /\ answered' = NoAnswer
  /\ revealed' = NoReveal
  /\ lastRoll' = NoRoll

UserExit ==
  /\ err' = "USER_EXIT"
  /\ pc' = "closed"

(***************************************************************************)
(* DiceGame.determineFirstPlayer()                                         *)
(***************************************************************************)
\* new FairRandomProtocol(0, 1) and protocol.getHmac()
DfpCommit ==
  /\ pc = "dfp_new"
  /\ \E key \in Keys, raw \in RawWords :
       protocol' = getHmac(NewProtocol(0, 1, key), raw)
  /\ pc' = "dfp_committed"
  /\ UNCHANGED <<dice, probabilities, currentPlayer, selectedDice, userRoll, computerRoll,
                 turn, round, err, verdict, published, prompted, answered, revealed,
                 roundLog, lastRoll, fmDecisions>>
  /\ UNCHANGED <<exitAsked, harnessVars>>

\* console.log of the digest
DfpPublish ==
  /\ pc = "dfp_committed"
  /\ published' = protocol.hmac
  /\ pc' = "dfp_published"
  /\ UNCHANGED <<dice, probabilities, currentPlayer, selectedDice, userRoll, computerRoll,
                 protocol, turn, round, err, verdict, prompted, answered, revealed,
                 roundLog, lastRoll, fmDecisions>>
  /\ UNCHANGED <<exitAsked, harnessVars>>

\* the menu and getInput("Your selection: ")
DfpPrompt ==
  /\ pc = "dfp_published"
  /\ prompted' = TRUE
  /\ pc' = "dfp_input"
  /\ UNCHANGED <<dice, probabilities, currentPlayer, selectedDice, userRoll, computerRoll,
                 protocol, turn, round, err, verdict, published, answered, revealed,
                 roundLog, lastRoll, fmDecisions>>
  /\ UNCHANGED <<exitAsked, harnessVars>>

\* the user's answer: help, exit, or the reveal and the first mover
DfpAnswerOn(choices) ==
  /\ pc = "dfp_input"
  /\ \E choice \in choices :
     /\ exitAsked' = (choice = <<"X">>)
     /\ IF IsHelp(choice)
       THEN /\ ClearLocals
            /\ pc' = "dfp_new"
            /\ UNCHANGED <<currentPlayer, err, roundLog, fmDecisions>>
       ELSE IF IsExit(choice)
       THEN /\ ClearLocals
            /\ UserExit
            /\ UNCHANGED <<currentPlayer, roundLog, fmDecisions>>
       ELSE LET res == getResult(protocol)
                first == IF choice = ToStr(res.result.v) THEN "user" ELSE "computer"
            IN  /\ answered' = choice
                /\ revealed' = res
                /\ currentPlayer' = first
                /\ roundLog' = Append(roundLog, <<"decide", first>>)
                /\ fmDecisions' = Append(fmDecisions, first)
                /\ pc' = "dfp_done"
                /\ UNCHANGED <<protocol, published, prompted, lastRoll, err>>
  /\ UNCHANGED <<dice, probabilities, selectedDice, userRoll, computerRoll, turn, round,
                 verdict>>
  /\ UNCHANGED harnessVars

DfpAnswer == DfpAnswerOn(Inputs)

\* determineFirstPlayer() returns and start() calls playRound()
DfpReturn ==
  /\ pc = "dfp_done"
  /\ ClearLocals
  /\ pc' = "select"
  /\ UNCHANGED <<dice, probabilities, currentPlayer, selectedDice, userRoll, computerRoll,
                 turn, round, err, verdict, roundLog, fmDecisions>>
  /\ UNCHANGED <<exitAsked, harnessVars>>

(***************************************************************************)
(* DiceGame.computerSelectDice() and userSelectDice(), called by playRound *)
(***************************************************************************)
AfterSelect ==
  IF turn = 1 THEN pc' = "select" /\ turn' = 2 ELSE pc' = "roll_new" /\ turn' = 1

ComputerSelectDice ==
  /\ pc = "select"
  /\ Selector(currentPlayer, turn) = "computer"
  /\ LET bestDie == BestDie(dice, probabilities, selectedDice)
     IN  /\ selectedDice' = [selectedDice EXCEPT !.computer = Num(bestDie)]
         /\ roundLog' = Append(roundLog, <<"select", "computer">>)
  /\ AfterSelect
  /\ UNCHANGED <<dice, probabilities, currentPlayer, userRoll, computerRoll, protocol, round,
                 err, verdict, published, prompted, answered, revealed, lastRoll, fmDecisions>>
  /\ UNCHANGED <<exitAsked, harnessVars>>

\* the list of available dice and getInput("Your selection: ")
UserSelectPrompt ==
  /\ pc = "select"
  /\ Selector(currentPlayer, turn) = "user"
  /\ pc' = "usel_input"
  /\ UNCHANGED <<dice, probabilities, currentPlayer, selectedDice, userRoll, computerRoll,
                 protocol, turn, round, err, verdict, published, prompted, answered,
                 revealed, roundLog, lastRoll, fmDecisions>>
  /\ UNCHANGED <<exitAsked, harnessVars>>

\* the user's answer: help, exit, or the die; this.dice[undefined].toString() throws
UserSelectAnswerOn(choices) ==
  /\ pc = "usel_input"
  /\ \E choice \in choices :
     /\ exitAsked' = (choice = <<"X">>)
     /\ IF IsHelp(choice)
       THEN /\ pc' = "select"
            /\ UNCHANGED <<selectedDice, turn, err, roundLog>>
       ELSE IF IsExit(choice)
       THEN /\ UserExit
            /\ UNCHANGED <<selectedDice, turn, roundLog>>
       ELSE LET available == getAvailableDice(dice, selectedDice)
                selected == ArrayGet(available, parseInt(choice))
            IN  /\ selectedDice' = [selectedDice EXCEPT !.user = selected]
                /\ IF selected = Undefined
                   THEN /\ err' = "TypeError"
                        /\ pc' = "closed"
                        /\ UNCHANGED <<turn, roundLog>>
                   ELSE /\ roundLog' = Append(roundLog, <<"select", "user">>)
                        /\ AfterSelect
                        /\ err' = err
  /\ UNCHANGED <<dice, probabilities, currentPlayer, userRoll, computerRoll, protocol, round,
                 verdict, published, prompted, answered, revealed, lastRoll, fmDecisions>>
  /\ UNCHANGED harnessVars

UserSelectAnswer == UserSelectAnswerOn(Inputs)

(***************************************************************************)
(* DiceGame.performRoll(), called twice by performRolls()                  *)
(***************************************************************************)
\* the die index performRolls() passes for the party that rolls
RollDieIdx == IF Roller(currentPlayer, turn) = "user" THEN selectedDice.user.v
              ELSE selectedDice.computer.v

\* new FairRandomProtocol(0, die.size - 1) and protocol.getHmac()
RollCommit ==
  /\ pc = "roll_new"
  /\ \E key \in Keys, raw \in RawWords :
       protocol' = getHmac(NewProtocol(0, DiceSize(dice[RollDieIdx + 1]) - 1, key), raw)
  /\ pc' = "roll_committed"
  /\ UNCHANGED <<dice, probabilities, currentPlayer, selectedDice, userRoll, computerRoll,
                 turn, round, err, verdict, published, prompted, answered, revealed,
                 roundLog, lastRoll, fmDecisions>>
  /\ UNCHANGED <<exitAsked, harnessVars>>

RollPublishAndReveal ==
  /\ pc = "roll_committed"
  /\ published' = protocol.hmac
  /\ revealed' = getResult(protocol)
  /\ pc' = "roll_published"
  /\ UNCHANGED <<dice, probabilities, currentPlayer, selectedDice, userRoll, computerRoll,
                 protocol, turn, round, err, verdict, prompted, answered, roundLog, lastRoll,
                 fmDecisions>>
  /\ UNCHANGED <<exitAsked, harnessVars>>

RollPublish ==
  /\ pc = "roll_committed"
  /\ published' = protocol.hmac
  /\ pc' = "roll_published"
  /\ UNCHANGED <<dice, probabilities, currentPlayer, selectedDice, userRoll, computerRoll,
                 protocol, turn, round, err, verdict, prompted, answered, revealed,
                 roundLog, lastRoll, fmDecisions>>
  /\ UNCHANGED <<exitAsked, harnessVars>>

RollPrompt ==
  /\ pc = "roll_published"
  /\ prompted' = TRUE
  /\ pc' = "roll_input"
  /\ UNCHANGED <<dice, probabilities, currentPlayer, selectedDice, userRoll, computerRoll,
                 protocol, turn, round, err, verdict, published, answered, revealed,
                 roundLog, lastRoll, fmDecisions>>
  /\ UNCHANGED <<exitAsked, harnessVars>>

\* the user's answer: help, exit, or the reveal, the joint value and the face
RollAnswerOn(choices) ==
  /\ pc = "roll_input"
  /\ \E choice \in choices :
     /\ exitAsked' = (choice = <<"X">>)
     /\ IF IsHelp(choice)
       THEN /\ ClearLocals
            /\ pc' = "roll_new"
            /\ UNCHANGED <<err, roundLog>>
       ELSE IF IsExit(choice)
       THEN /\ ClearLocals
            /\ UserExit
            /\ UNCHANGED <<roundLog>>
       ELSE LET player == Roller(currentPlayer, turn)
                die == dice[RollDieIdx + 1]
                res == getResult(protocol)
                rollResult == Combine(res.result, parseInt(choice), DiceSize(die))
                faceValue == DiceRoll(die, rollResult)
            IN  /\ answered' = choice
                /\ revealed' = res
                /\ lastRoll' = [player |-> player, die |-> RollDieIdx,
                                size |-> DiceSize(die), secret |-> res.result,
                                choice |-> parseInt(choice), joint |-> rollResult,
                                face |-> faceValue]
                /\ roundLog' = Append(roundLog, <<"roll", player>>)
                /\ pc' = "roll_done"
                /\ UNCHANGED <<protocol, published, prompted, err>>
  /\ UNCHANGED <<dice, probabilities, currentPlayer, selectedDice, userRoll, computerRoll,
                 turn, round, verdict, fmDecisions>>
  /\ UNCHANGED harnessVars

RollAnswer == RollAnswerOn(Inputs)

\* performRoll() returns faceValue and performRolls() stores it
RollReturn ==
  /\ pc = "roll_done"
  /\ IF lastRoll.player = "user"
     THEN userRoll' = lastRoll.face /\ computerRoll' = computerRoll
     ELSE computerRoll' = lastRoll.face /\ userRoll' = userRoll
  /\ ClearLocals
  /\ IF turn = 1 THEN pc' = "roll_new" /\ turn' = 2 ELSE pc' = "compare" /\ turn' = 1
  /\ UNCHANGED <<dice, probabilities, currentPlayer, selectedDice, round, err, verdict,
                 roundLog, fmDecisions>>
  /\ UNCHANGED <<exitAsked, harnessVars>>

(***************************************************************************)
(* DiceGame.compareResults() and the end of playRound()                    *)
(***************************************************************************)
\* compareResults() and getInput("Play another round? (y/n): ")
CompareResults ==
  /\ pc = "compare"
  /\ verdict' = CompareVerdict(userRoll, computerRoll)
  /\ roundLog' = Append(roundLog, <<"compare", CompareVerdict(userRoll, computerRoll)>>)
  /\ pc' = "again_input"
  /\ UNCHANGED <<dice, probabilities, currentPlayer, selectedDice, userRoll, computerRoll,
                 protocol, turn, round, err, published, prompted, answered, revealed,
                 lastRoll, fmDecisions>>
  /\ UNCHANGED <<exitAsked, harnessVars>>

\* the user's answer: another round, or the end of the game
PlayAgain ==
  /\ pc = "again_input"
  /\ \E playAgain \in Inputs :
       IF toLowerCase(playAgain) = <<"y">>
       THEN /\ round < MaxRounds
            /\ selectedDice' = ResetSelection(selectedDice)
            /\ roundLog' = <<>>
            /\ round' = round + 1
            /\ pc' = NextRoundPc
       ELSE /\ pc' = "closed"
            /\ UNCHANGED <<selectedDice, roundLog, round>>
  /\ UNCHANGED <<dice, probabilities, currentPlayer, userRoll, computerRoll, protocol, turn,
                 err, verdict, published, prompted, answered, revealed, lastRoll, fmDecisions>>
  /\ UNCHANGED <<exitAsked, harnessVars>>

InitParse ==
  /\ pArgs = <<>>
  /\ pOutcome = NotRun

InitMatrix ==
  /\ mDice = <<>>
  /\ mMatrix = <<>>

Init == InitGame /\ InitCombine /\ InitParse /\ InitMatrix

Next ==
  \/ DfpCommit
  \/ DfpPublish
  \/ DfpPrompt
  \/ DfpAnswer
  \/ DfpReturn
  \/ ComputerSelectDice
  \/ UserSelectPrompt
  \/ UserSelectAnswer
  \/ RollCommit
  \/ RollPublish
  \/ RollPrompt
  \/ RollAnswer
  \/ RollReturn
  \/ CompareResults
  \/ PlayAgain

Spec == Init /\ [][Next]_vars

(***************************************************************************)
(* The combiner of performRoll() on its own: any modulus, any secret and   *)
(* any counterpart value in range.                                         *)
(***************************************************************************)
CombineStep ==
  /\ \E m \in 1..MaxModulus :
       \E s \in 0..(m - 1), c \in 0..(m - 1) :
         /\ cM' = m
         /\ cS' = s
         /\ cC' = c
         /\ cJoint' = Combine(Num(s), Num(c), m)
  /\ UNCHANGED <<gameVars, parseVars, matrixVars>>

CombineSpec == Init /\ [][CombineStep]_vars

(***************************************************************************)
(* Properties.                                                             *)
(***************************************************************************)
ExchangePcs ==
  {"dfp_committed", "dfp_published", "dfp_input", "dfp_done",
   "roll_committed", "roll_published", "roll_input", "roll_done"}
DfpPcs == {"dfp_new", "dfp_committed", "dfp_published", "dfp_input", "dfp_done"}
RoundPcs ==
  {"select", "usel_input", "roll_new", "roll_committed", "roll_published", "roll_input",
   "roll_done", "compare", "again_input"}

\* C1: in every exchange (first move and each roll) the digest exists and is
\* printed before the user's input is asked for, and the secret and key are
\* revealed only after the user's answer in that exchange has come in;
\* nothing is revealed of a commitment that has no digest.
C1_CommitBeforeInputRevealAfter ==
  /\ pc \in ExchangePcs => protocol.number # Null /\ protocol.hmac # NoDigest
  /\ pc \in {"dfp_published", "roll_published"} =>
       published = protocol.hmac /\ ~prompted /\ revealed = NoReveal
  /\ prompted => published # NoDigest /\ published = protocol.hmac
  /\ pc \in {"dfp_input", "roll_input"} =>
       prompted /\ answered = NoAnswer /\ revealed = NoReveal
  /\ answered # NoAnswer => prompted
  /\ revealed # NoReveal =>
       /\ prompted
       /\ answered # NoAnswer
       /\ protocol.hmac # NoDigest
       /\ published = protocol.hmac

C1_Witness ==
  /\ pc = "roll_done"
  /\ revealed # NoReveal
  /\ answered = <<"3">>
  /\ published = protocol.hmac

\* C2: the pair getResult returns is the pair whose keyed hash is the digest
\* printed in that exchange, and calling getHmac again on a commitment gives
\* the same digest and the same secret, whatever random word would be drawn.
C2_CommitmentSound ==
  /\ revealed # NoReveal =>
       /\ published # NoDigest
       /\ IsNum(revealed.result)
       /\ Hmac(FromHex(revealed.key), ToStr(revealed.result.v)) = published
  /\ protocol.number # Null =>
       \A raw \in RawWords :
         /\ getHmac(protocol, raw).hmac = protocol.hmac
         /\ getHmac(protocol, raw).number = protocol.number

C2_Witness ==
  /\ pc = "dfp_done"
  /\ revealed = [result |-> Num(1), key |-> <<"0", "1">>]
  /\ published = Hmac(1, <<"1">>)

\* the raw words that generateSecureNumber maps to v
PreimageCount(p, v) == Cardinality({raw \in RawWords : generateSecureNumber(p, raw) = v})

\* C3: every value of [min, max] is produced by the same number of raw
\* random words.
C3_NoModuloBias ==
  protocol # NoProtocol =>
    \A v, w \in protocol.min..protocol.max :
      PreimageCount(protocol, v) = PreimageCount(protocol, w)

InRange(x, size) == IsNum(x) /\ x.v >= 0 /\ x.v < size

\* C4: with a secret and a user value in [0, size-1] the joint value is
\* (secret + user value) mod size, lies in [0, size-1], and the roll reported
\* is the face of the die at that index.
C4_JointValueAndFace ==
  (pc = "roll_done" /\ InRange(lastRoll.choice, lastRoll.size)) =>
    /\ InRange(lastRoll.secret, lastRoll.size)
    /\ lastRoll.size = Len(dice[lastRoll.die + 1])
    /\ lastRoll.joint = Num((lastRoll.secret.v + lastRoll.choice.v) % lastRoll.size)
    /\ InRange(lastRoll.joint, lastRoll.size)
    /\ lastRoll.face = Num(dice[lastRoll.die + 1][lastRoll.joint.v + 1])

C4_Witness ==
  /\ pc = "roll_done"
  /\ lastRoll.size = 6
  /\ lastRoll.secret = Num(2)
  /\ lastRoll.choice = Num(3)
  /\ lastRoll.joint = Num(5)
  /\ lastRoll.face = Num(dice[lastRoll.die + 1][6])

\* C5: a roll is never produced from a user value outside [0, size-1]
\* (too large, negative or not a number): such an answer ends in an input
\* error.
C5_OutOfRangeRejected ==
  pc = "roll_done" => InRange(lastRoll.choice, lastRoll.size)

\* C6: for every modulus m and every fixed counterpart value c the map
\* secret -> joint value is a bijection on [0, m-1], and for every fixed
\* secret so is the map counterpart value -> joint value.
C6_CombinerBijective ==
  LET range == 0..(cM - 1)
      values == {Num(j) : j \in range}
  IN  /\ \A c \in range :
           /\ {Combine(Num(s), Num(c), cM) : s \in range} = values
           /\ \A s1, s2 \in range :
                Combine(Num(s1), Num(c), cM) = Combine(Num(s2), Num(c), cM) => s1 = s2
      /\ \A s \in range :
           /\ {Combine(Num(s), Num(c), cM) : c \in range} = values
           /\ \A c1, c2 \in range :
                Combine(Num(s), Num(c1), cM) = Combine(Num(s), Num(c2), cM) => c1 = c2
      /\ cJoint \in values

C6_Witness ==
  /\ cM = 6
  /\ cC = 0
  /\ cS = 5
  /\ cJoint = Num(5)

\* the win probability of die d against die u, compared as quotients
BeatsMore(d1, d2, u) ==
  Wins(dice[d1 + 1], dice[u + 1]) * Total(dice[d2 + 1], dice[u + 1])
    > Wins(dice[d2 + 1], dice[u + 1]) * Total(dice[d1 + 1], dice[u + 1])
OthersThan(u) == (0..(Len(dice) - 1)) \ {u}
ComputerAnswered ==
  /\ currentPlayer = "user"
  /\ IsNum(selectedDice.user)
  /\ IsNum(selectedDice.computer)

\* C7: when the user's die is already chosen the computer holds, among the
\* dice still available, one of highest win probability against the user's
\* die, and the one of lowest index among those of highest probability.
C7_BestDieLowestIndex ==
  ComputerAnswered =>
    LET u == selectedDice.user.v
        c == selectedDice.computer.v
    IN  /\ c \in OthersThan(u)
        /\ \A d \in OthersThan(u) : ~BeatsMore(d, c, u)
        /\ \A d \in OthersThan(u) : d < c => BeatsMore(c, d, u)

C7_Witness ==
  /\ ComputerAnswered
  /\ \E d \in OthersThan(selectedDice.user.v) :
       /\ d > selectedDice.computer.v
       /\ ~BeatsMore(d, selectedDice.computer.v, selectedDice.user.v)
       /\ ~BeatsMore(selectedDice.computer.v, d, selectedDice.user.v)

\* C8: once both parties hold a die, they hold different dice.
C8_DistinctDice ==
  (IsNum(selectedDice.user) /\ IsNum(selectedDice.computer)) =>
    selectedDice.user # selectedDice.computer

C8_Witness ==
  /\ pc = "roll_new"
  /\ currentPlayer = "computer"
  /\ selectedDice.computer = Num(0)
  /\ selectedDice.user = Num(2)

\* what a round does after the first mover is known, in order
RoundOrder(cp) ==
  << <<"select", cp>>, <<"select", Other(cp)>>, <<"roll", cp>>, <<"roll", Other(cp)>> >>
\* the round's log without the first-move decision at its head
AfterDecision ==
  IF roundLog # <<>> /\ Head(roundLog)[1] = "decide" THEN Tail(roundLog) ELSE roundLog

C10_RedecidedEveryRound ==
  pc \in RoundPcs => (roundLog # <<>> /\ Head(roundLog)[1] = "decide")

\* C10 as amended: the first mover is decided once, before the first round;
\* a later round starts at die selection with the same first mover and
\* holds no first-move decision.
C10_DecidedOncePerGame ==
  /\ Len(fmDecisions) <= 1
  /\ pc \in RoundPcs => fmDecisions = <<currentPlayer>>
  /\ round > 1 =>
       /\ pc \notin DfpPcs
       /\ \A i \in 1..Len(roundLog) : roundLog[i][1] # "decide"

C10_Witness ==
  /\ round = 2
  /\ pc = "roll_new"
  /\ turn = 2
  /\ fmDecisions = <<"user">>
  /\ currentPlayer = "user"

(***************************************************************************)
(* The entry point on its own: any command line up to MaxArgLen characters *)
(***************************************************************************)
ParseStep ==
  /\ ~pOutcome.ran
  /\ \E args \in ArgStrings :
       /\ pArgs' = args
       /\ pOutcome' = EntryPoint(args)
  /\ UNCHANGED <<gameVars, combineVars, matrixVars>>

ParseSpec == Init /\ [][ParseStep]_vars

(***************************************************************************)
(* ProbabilityCalculator.calculate on its own: the dice of the README and  *)
(* every three small dice.                                                 *)
(***************************************************************************)
ReadmeDice == << <<2, 2, 4, 4, 9, 9>>, <<1, 1, 6, 6, 8, 8>>, <<3, 3, 5, 5, 7, 7>> >>
SmallDice == UNION {[1..n -> 0..MaxFace] : n \in 1..MaxFaces}
MatrixInputs == {ReadmeDice} \cup {<<a, b, c>> : a \in SmallDice, b \in SmallDice, c \in SmallDice}

CalculateStep ==
  /\ mDice = <<>>
  /\ \E ds \in MatrixInputs :
       /\ mDice' = ds
       /\ mMatrix' = calculate(ds)
  /\ UNCHANGED <<gameVars, combineVars, parseVars>>

MatrixSpec == Init /\ [][CalculateStep]_vars

(***************************************************************************)
(* The game with a user who, at every prompt, asks for help any number of  *)
(* times and then gives a choice the prompt lists.                         *)
(***************************************************************************)
\* the choices a menu of n entries lists: 0 .. n-1, typed as printed
Listed(n) == {c \in Inputs : \E k \in 0..(n - 1) : c = NatToStr(k)}
HelpChoice == {<<"?">>}
DfpListed == Listed(2)
SelectListed == Listed(Len(getAvailableDice(dice, selectedDice)))
RollListed == IF pc = "roll_input" THEN Listed(DiceSize(dice[RollDieIdx + 1])) ELSE {}

\* the steps the program takes without waiting for the user
ProgramStep ==
  \/ DfpCommit
  \/ DfpPublish
  \/ DfpPrompt
  \/ DfpReturn
  \/ ComputerSelectDice
  \/ UserSelectPrompt
  \/ RollCommit
  \/ RollPublish
  \/ RollPrompt
  \/ RollReturn
  \/ CompareResults

HelpfulNext ==
  \/ ProgramStep
  \/ DfpAnswerOn(HelpChoice \cup DfpListed)
  \/ UserSelectAnswerOn(HelpChoice \cup SelectListed)
  \/ RollAnswerOn(HelpChoice \cup RollListed)
  \/ PlayAgain

\* The program runs on one thread and blocks only in getInput, so a program
\* step that is possible is taken (weak fairness).  The user may ask for
\* help again and again, but a prompt that keeps coming back is in the end
\* answered with a listed choice (strong fairness of the listed answers,
\* which are possible exactly while the prompt waits).
ListedAnswersGiven ==
  /\ (<>[](pc # "dfp_input")) \/ ([]<><<DfpAnswerOn(DfpListed)>>_vars)
  /\ (<>[](pc # "usel_input")) \/ ([]<><<UserSelectAnswerOn(SelectListed)>>_vars)
  /\ (<>[](pc # "roll_input")) \/ ([]<><<RollAnswerOn(RollListed)>>_vars)

HelpfulSpec ==
  /\ Init
  /\ [][HelpfulNext]_vars
  /\ WF_vars(ProgramStep)
  /\ ListedAnswersGiven

\* C11: when the user types X at a first-move, selection or roll prompt the
\* game stops at once: the pending secret and key are not revealed, nothing
\* more is asked, no roll is recorded and no verdict is printed.
C11_ExitStopsAtOnce ==
  [][exitAsked' =>
       /\ ~exitAsked
       /\ pc' = "closed"
       /\ err' = "USER_EXIT"
       /\ revealed = NoReveal
       /\ revealed' = NoReveal
       /\ ~prompted'
       /\ UNCHANGED <<userRoll, computerRoll, verdict, selectedDice, currentPlayer, roundLog>>
    ]_vars

C11_Witness ==
  /\ exitAsked
  /\ pc = "closed"
  /\ err = "USER_EXIT"
  /\ Len(roundLog) = 4
  /\ IsNum(computerRoll)
  /\ userRoll = Undefined

\* the blank-separated parts of a command line, and a part that holds
\* commas only (a die with no face)
PartsOf(args) == SplitWs(Trim(args))
NoFace(part) == part # <<>> /\ \A i \in 1..Len(part) : part[i] = ","
FirstBadPart(args) ==
  LET parts == PartsOf(args)
  IN  parts[CHOOSE k \in 1..Len(parts) :
              /\ PartError(parts[k]) # "none"
              /\ \A j \in 1..(k - 1) : PartError(parts[j]) = "none"]

\* C12: fewer than 3 dice give the too-few-dice error, a face that is not a
\* non-negative integer gives the non-integer-face error, a malformed die
\* (such as a die with no faces) gives the malformed-die-format error, and
\* no game is started on any of them.
C12_ThreeValidationErrors ==
  pOutcome.ran =>
    /\ pOutcome.error # "none" => ~pOutcome.started /\ pOutcome.exitCode = 1
    /\ Len(PartsOf(pArgs)) < 3 => pOutcome.error = "NotEnoughDice"
    /\ (Len(PartsOf(pArgs)) >= 3 /\ pOutcome.error # "none") =>
         IF NoFace(FirstBadPart(pArgs))
         THEN pOutcome.error = "InvalidDieFormat"
         ELSE pOutcome.error = "NonIntegerFace"

\* face by face: the faces of d below a, the pairs (a of d1, b of d2) with
\* a > b, and the pairs with a = b
RECURSIVE FacesBelow(_, _)
FacesBelow(a, d) ==
  IF d = <<>> THEN 0 ELSE (IF Head(d) < a THEN 1 ELSE 0) + FacesBelow(a, Tail(d))
RECURSIVE StrictWins(_, _)
StrictWins(d1, d2) ==
  IF d1 = <<>> THEN 0 ELSE FacesBelow(Head(d1), d2) + StrictWins(Tail(d1), d2)
RECURSIVE FacesEqual(_, _)
FacesEqual(a, d) ==
  IF d = <<>> THEN 0 ELSE (IF Head(d) = a THEN 1 ELSE 0) + FacesEqual(a, Tail(d))
RECURSIVE TiePairs(_, _)
TiePairs(d1, d2) ==
  IF d1 = <<>> THEN 0 ELSE FacesEqual(Head(d1), d2) + TiePairs(Tail(d1), d2)
DieIndices == 0..(Len(mDice) - 1)
Die(i) == mDice[i + 1]

\* C13: for every ordered pair of distinct dice the matrix entry is the
\* number of face pairs with a strictly greater than b over
\* |faces i| x |faces j|; equal faces are no win; there is no entry for i = j.
C13_MatrixEntries ==
  mDice # <<>> =>
    /\ DOMAIN mMatrix = {pr \in DieIndices \X DieIndices : pr[1] # pr[2]}
    /\ \A pr \in DOMAIN mMatrix :
         /\ mMatrix[pr].wins = StrictWins(Die(pr[1]), Die(pr[2]))
         /\ mMatrix[pr].total = Len(Die(pr[1])) * Len(Die(pr[2]))

C13_Witness ==
  /\ mDice = << <<0, 1>>, <<1>>, <<1, 0>> >>
  /\ mMatrix[<<0, 1>>] = [wins |-> 0, total |-> 2]
  /\ mMatrix[<<1, 0>>] = [wins |-> 1, total |-> 2]
  /\ mMatrix[<<0, 2>>] = [wins |-> 1, total |-> 4]
  /\ <<1, 1>> \notin DOMAIN mMatrix

\* C14: for all dice i # j, matrix[i,j] + matrix[j,i] + tieRate(i,j) = 1,
\* the tie rate being the pairs of equal faces over |faces i| x |faces j|
\* (all three brought to a common denominator).
C14_Complement ==
  \A i, j \in DieIndices :
    i # j =>
      LET pij == mMatrix[<<i, j>>]
          pji == mMatrix[<<j, i>>]
          pairs == Len(Die(i)) * Len(Die(j))
      IN  pij.wins * pji.total * pairs + pji.wins * pij.total * pairs
            + TiePairs(Die(i), Die(j)) * pij.total * pji.total
          = pij.total * pji.total * pairs

C14_Witness ==
  /\ mDice = << <<0, 1>>, <<1>>, <<1, 0>> >>
  /\ TiePairs(Die(0), Die(1)) = 1
  /\ mMatrix[<<0, 1>>].wins = 0
  /\ mMatrix[<<1, 0>>].wins = 1
  /\ Len(Die(0)) * Len(Die(1)) = 2

MoreThanHalf(p) == 2 * p.wins > p.total

\* C15: for A=[2,2,4,4,9,9], B=[1,1,6,6,8,8], C=[3,3,5,5,7,7] the matrix has
\* matrix[A,B] > 1/2, matrix[B,C] > 1/2 and matrix[C,A] > 1/2.
C15_NonTransitiveCycle ==
  mDice = ReadmeDice =>
    /\ MoreThanHalf(mMatrix[<<0, 1>>])
    /\ MoreThanHalf(mMatrix[<<1, 2>>])
    /\ MoreThanHalf(mMatrix[<<2, 0>>])

C15_Witness ==
  /\ mDice = ReadmeDice
  /\ mMatrix[<<0, 1>>] = [wins |-> 20, total |-> 36]
  /\ mMatrix[<<1, 2>>] = [wins |-> 20, total |-> 36]
  /\ mMatrix[<<2, 0>>] = [wins |-> 20, total |-> 36]

(***************************************************************************)
(* Selection, verdict and first mover                                      *)
(***************************************************************************)
\* C16: when the computer selects while the user holds no die, it takes the
\* first available die by index, and that die is die 0.
C16_FirstAvailableDefault ==
  [][(selectedDice'.computer # selectedDice.computer /\ selectedDice.user = Undefined
        /\ IsNum(selectedDice'.computer)) =>
       /\ pc = "select"
       /\ selectedDice'.computer = Num(getAvailableDice(dice, selectedDice)[1])
       /\ selectedDice'.computer = Num(0)
    ]_vars

C16_Witness ==
  /\ round = 2
  /\ pc = "select"
  /\ turn = 2
  /\ currentPlayer = "computer"
  /\ selectedDice = [user |-> Undefined, computer |-> Num(0)]

AllDice == [i \in 1..Len(dice) |-> i - 1]

\* C17: at the start of every round, before the first selection, no party
\* holds a die and every die is available to the first selector.
C17_SelectionEmptyAtRoundStart ==
  (pc \in {"select", "usel_input"} /\ turn = 1) =>
    /\ selectedDice = EmptySelection
    /\ getAvailableDice(dice, selectedDice) = AllDice

C17_Witness ==
  /\ round = 2
  /\ pc = "usel_input"
  /\ turn = 1
  /\ IsNum(userRoll)
  /\ IsNum(computerRoll)
  /\ selectedDice = EmptySelection
  /\ getAvailableDice(dice, selectedDice) = AllDice

IsFaceOf(val, dieIdx) ==
  /\ IsNum(val)
  /\ IsNum(dieIdx)
  /\ \E k \in 1..Len(dice[dieIdx.v + 1]) : dice[dieIdx.v + 1][k] = val.v

\* C18: when a round is compared, both recorded rolls are faces of the dice
\* the parties selected, and the verdict is win, lose or tie exactly as the
\* user's face is greater than, smaller than or equal to the computer's.
C18_VerdictFromFaces ==
  pc = "again_input" =>
    /\ IsFaceOf(userRoll, selectedDice.user)
    /\ IsFaceOf(computerRoll, selectedDice.computer)
    /\ verdict = "win" <=> userRoll.v > computerRoll.v
    /\ verdict = "lose" <=> userRoll.v < computerRoll.v
    /\ verdict = "tie" <=> userRoll.v = computerRoll.v

\* C19: the user moves first exactly when the answer typed at the first-move
\* prompt is the committed bit; on any other answer the computer moves
\* first; the first mover selects first and rolls first.
C19_FirstMover ==
  /\ pc = "dfp_done" =>
       /\ revealed.result = protocol.number
       /\ currentPlayer = "user" <=>
            \/ (answered = <<"0">> /\ protocol.number = Num(0))
            \/ (answered = <<"1">> /\ protocol.number = Num(1))
       /\ currentPlayer # "user" => currentPlayer = "computer"
  /\ Len(AfterDecision) >= 1 => AfterDecision[1] = <<"select", currentPlayer>>
  /\ Len(AfterDecision) >= 3 => AfterDecision[3] = <<"roll", currentPlayer>>

C19_Witness ==
  /\ pc = "roll_done"
  /\ currentPlayer = "user"
  /\ fmDecisions = <<"user">>
  /\ roundLog = << <<"decide", "user">>, <<"select", "user">>, <<"select", "computer">>,
                   <<"roll", "user">> >>

(***************************************************************************)
(* Progress and help                                                       *)
(***************************************************************************)
\* a step that answers a prompt with a help request
HelpAtExchange ==
  \/ pc = "dfp_input" /\ pc' = "dfp_new"
  \/ pc = "roll_input" /\ pc' = "roll_new"
HelpAtSelect == pc = "usel_input" /\ pc' = "select" /\ turn' = turn
AtExchangePrompt == pc \in {"dfp_input", "roll_input"}

\* C20: with a user who at every prompt ends up giving a listed choice, a
\* game under way reaches the comparison of the round; a help request leads
\* back to the prompt it was made at, the commitment shown there is drawn
\* anew and the secret of the abandoned one is not revealed, and the first
\* mover, the claimed dice and the rolls recorded stay as they were.
C20_ProgressAndHelp ==
  /\ (pc # "closed") ~> (pc = "again_input")
  /\ (pc = "dfp_new") ~> (pc = "dfp_input")
  /\ (pc = "roll_new") ~> (pc = "roll_input")
  /\ (pc = "select" /\ Selector(currentPlayer, turn) = "user") ~> (pc = "usel_input")
  /\ [](AtExchangePrompt =>
          /\ protocol # NoProtocol
          /\ published = protocol.hmac
          /\ revealed = NoReveal)
  /\ [][HelpAtExchange =>
          /\ revealed = NoReveal
          /\ revealed' = NoReveal
          /\ protocol' = NoProtocol
          /\ published' = NoDigest
       ]_vars
  /\ [][(HelpAtExchange \/ HelpAtSelect) =>
          /\ err' = "none"
          /\ UNCHANGED <<currentPlayer, selectedDice, userRoll, computerRoll, turn, round,
                         roundLog, fmDecisions, verdict>>
       ]_vars

C20_Witness ==
  /\ pc = "again_input"
  /\ round = 2
  /\ err = "none"
  /\ IsNum(userRoll)
  /\ IsNum(computerRoll)
  /\ Len(roundLog) = 5
====
